---- MODULE Spec2Model ----
(***************************************************************************)
(* Model of app.py, the Streamlit "TSV Preview & Column Picker".           *)
(*                                                                         *)
(* Streamlit re-executes the whole script after every user interaction.    *)
(* One action of the model is one such interaction followed by the         *)
(* complete rerun of the script, up to the st.stop() or exception that     *)
(* ends it.  st.session_state (keep_map), the uploaded file and the values *)
(* of the input widgets survive between reruns; everything else is         *)
(* recomputed by the rerun.                                                *)
(*                                                                         *)
(* A Python str is modelled as a sequence of one-character strings so      *)
(* that lower(), strip() and the regular expression of norm() are computed *)
(* character by character.                                                 *)
(***************************************************************************)
EXTENDS Integers, Sequences, FiniteSets, TLC

\* ---------------------------------------------------------------- bounds
\* Largest number of data rows of an uploaded file.
MaxRows == 4
\* Largest number of picker checkboxes the user flips in one interaction.
MaxToggles == 1
\* Largest number of values the user holds selected in one multiselect.
MaxChosen == 2

\* -------------------------------------------------------- str operations
UpperChars == <<"A","B","C","D","E","F","G","H","I","J","K","L","M",
                "N","O","P","Q","R","S","T","U","V","W","X","Y","Z">>
LowerChars == <<"a","b","c","d","e","f","g","h","i","j","k","l","m",
                "n","o","p","q","r","s","t","u","v","w","x","y","z">>
DigitChars == {"0","1","2","3","4","5","6","7","8","9"}
SpaceChars == {" ", "\t"}

Range(f) == {f[i] : i \in DOMAIN f}

\* str.lower() on one character.
lower_char(ch) ==
    IF \E i \in DOMAIN UpperChars : UpperChars[i] = ch
    THEN LowerChars[CHOOSE i \in DOMAIN UpperChars : UpperChars[i] = ch]
    ELSE ch

RECURSIVE str_lower(_)
str_lower(s) ==
    IF s = <<>> THEN <<>> ELSE <<lower_char(Head(s))>> \o str_lower(Tail(s))

RECURSIVE str_lstrip(_)
str_lstrip(s) ==
    IF s # <<>> /\ Head(s) \in SpaceChars THEN str_lstrip(Tail(s)) ELSE s

RECURSIVE str_rstrip(_)
str_rstrip(s) ==
    IF s # <<>> /\ s[Len(s)] \in SpaceChars
    THEN str_rstrip(SubSeq(s, 1, Len(s) - 1)) ELSE s

\* Series.str.strip()
str_strip(s) == str_rstrip(str_lstrip(s))

\* .astype(str).str.strip().str.lower(), the colour normalisation
strip_lower(s) == str_lower(str_strip(s))

IsLowerAlnum(ch) == ch \in Range(LowerChars) \cup DigitChars

\* norm(): re.sub(r"[^a-z0-9]", "", s.lower())
norm(s) == SelectSeq(str_lower(s), IsLowerAlnum)

\* ------------------------------------------------------ list operations
RECURSIVE SeqToSetOrdered(_, _)
\* Series.unique(): the distinct elements of s in order of first appearance,
\* appended to acc.
SeqToSetOrdered(s, acc) ==
    IF s = <<>> THEN acc
    ELSE SeqToSetOrdered(Tail(s),
            IF Head(s) \in Range(acc) THEN acc ELSE Append(acc, Head(s)))

unique(s) == SeqToSetOrdered(s, <<>>)

\* Number of positions of s holding v.
CountOf(s, v) == Cardinality({i \in DOMAIN s : s[i] = v})

RECURSIVE InsertByCount(_, _)
\* Insert record r into the list t, sorted by count descending, after every
\* record whose count is not smaller (stable).
InsertByCount(t, r) ==
    IF t = <<>> THEN <<r>>
    ELSE IF Head(t).count >= r.count
         THEN <<Head(t)>> \o InsertByCount(Tail(t), r)
         ELSE <<r>> \o t

RECURSIVE SortByCount(_, _)
SortByCount(s, acc) ==
    IF s = <<>> THEN acc ELSE SortByCount(Tail(s), InsertByCount(acc, Head(s)))

\* Series.value_counts(): one record per distinct value with the number of
\* its occurrences, sorted by count descending; equal counts keep the order
\* of first appearance.
value_counts(s) ==
    LET u == unique(s)
        recs == [i \in DOMAIN u |-> [value |-> u[i], count |-> CountOf(s, u[i])]]
    IN  SortByCount(recs, <<>>)

\* round(num / den * 100, 2) in hundredths of a percent, ties to even;
\* -1 stands for the NaN that a zero denominator produces.
pct(num, den) ==
    IF den = 0 THEN -1
    ELSE LET q == (num * 10000) \div den
             r == (num * 10000) % den
         IN  IF 2 * r < den THEN q
             ELSE IF 2 * r > den THEN q + 1
             ELSE IF q % 2 = 0 THEN q ELSE q + 1

\* ----------------------------------------------------------- the inputs
\* The files the user can upload: their header and data rows, one cell per
\* column.  "bad" is a file read_csv cannot parse.
FileIds == {"feed_a", "feed_b", "feed_c"}

FileColumns(id) ==
    CASE id = "feed_a" -> <<<<"T", "i", "t", "l", "e">>, <<"t", "i", "t", "l", "e">>, <<"c", "o", "l", "o", "u", "r">>, <<"s", "i", "z", "e">>>>
      [] id = "feed_b" -> <<<<"t", "i", "t", "l", "e">>, <<"c", "o", "l", "o", "r">>, <<"g", "e", "n", "e", "r", "i", "c", "_", "c", "o", "l", "o", "u", "r">>>>
      [] id = "feed_c" -> <<<<"i", "d">>, <<"p", "r", "o", "d", "u", "c", "t", "_", "c", "o", "l", "o", "u", "r">>>>

FileRows(id) ==
    CASE id = "feed_a" -> << <<<<"A">>, <<"a">>, <<"B", "L", "U", "E">>, <<"S">>>>,
                             <<<<"A">>, <<"a">>, <<"R", "e", "d">>,  <<"M">>>>,
                             <<<<"A">>, <<"a">>, <<"r", "e", "d", " ">>, <<"S">>>>,
                             <<<<"A">>, <<"a">>, <<>>,     <<"M">>>>,
                             <<<<"A">>, <<"a">>, <<" ", "R", "e", "d">>,  <<" ", "S">>>> >>
      [] id = "feed_b" -> << <<<<"a">>, <<"R", "e", "d">>,  <<"x">>>>,
                             <<<<"a">>, <<"b", "l", "u", "e">>, <<"x">>>> >>
      [] id = "feed_c" -> << <<<<"1">>, <<"R", "e", "d">>>>,
                             <<<<"2">>, <<"N", "a", "v", "y">>>> >>

Min(a, b) == IF a < b THEN a ELSE b

NoFile  == [id |-> "none", nrows |-> 0]
BadFile == [id |-> "bad",  nrows |-> 0]

\* What st.file_uploader can hold: nothing, an unparseable file, or one of
\* the feeds cut after its first nrows data rows.
Uploads ==
    {NoFile, BadFile} \cup
    UNION {{[id |-> f, nrows |-> n] :
               n \in 1..Min(MaxRows, Len(FileRows(f)))} : f \in FileIds}

\* pd.read_csv(tsv_file, sep="\t", dtype=str, na_filter=False): every cell is
\* a str and an empty cell stays the empty str.
read_tsv(file) ==
    [columns |-> FileColumns(file.id),
     rows    |-> SubSeq(FileRows(file.id), 1,
                        Min(file.nrows, Len(FileRows(file.id))))]

EmptyDf == [columns |-> <<>>, rows |-> <<>>]

IndexOf(s, v) == CHOOSE i \in DOMAIN s : s[i] = v

\* df[c]: the cells of column c, in row order.
Column(t, c) ==
    LET k == IndexOf(t.columns, c)
    IN  [i \in DOMAIN t.rows |-> t.rows[i][k]]

\* The colour_mapping.csv the script finds next to it: absent, or a header
\* and rows.
MappingFiles == {"missing", "no_generic", "good", "blank_key", "sparse"}

MappingHeader(m) ==
    CASE m = "no_generic" -> <<<<"p", "r", "o", "d", "u", "c", "t", "_", "c", "o", "l", "o", "u", "r">>, <<"c", "o", "l", "o", "u", "r">>>>
      [] m = "good"       -> <<<<"P", "r", "o", "d", "u", "c", "t", "_", "C", "o", "l", "o", "u", "r">>, <<"G", "e", "n", "e", "r", "i", "c", "_", "C", "o", "l", "o", "u", "r">>, <<"n", "o", "t", "e">>>>
      [] m = "blank_key"  -> <<<<"p", "r", "o", "d", "u", "c", "t", "_", "c", "o", "l", "o", "u", "r">>, <<"g", "e", "n", "e", "r", "i", "c", "_", "c", "o", "l", "o", "u", "r">>>>
      [] m = "sparse"     -> <<<<"G", "E", "N", "E", "R", "I", "C", "_", "C", "O", "L", "O", "U", "R">>, <<"P", "R", "O", "D", "U", "C", "T", "_", "C", "O", "L", "O", "U", "R">>>>

MappingRows(m) ==
    CASE m = "no_generic" -> << <<<<"r", "e", "d">>, <<"s", "c", "a", "r", "l", "e", "t">>>> >>
      [] m = "good"       -> << <<<<"R", "e", "d", " ">>, <<"S", "c", "a", "r", "l", "e", "t">>, <<>>>>,
                                <<<<"r", "e", "d">>,  <<"c", "r", "i", "m", "s", "o", "n">>, <<>>>>,
                                <<<<"n", "a", "v", "y">>, <<"N", "a", "v", "y">>,    <<>>>> >>
      [] m = "blank_key"  -> << <<<<" ">>,    <<"B", "l", "a", "n", "k">>>>,
                                <<<<"B", "L", "U", "E">>, <<"N", "a", "v", "y">>>> >>
      [] m = "sparse"     -> << <<<<"R", "o", "s", "e">>, <<"p", "i", "n", "k">>>>,
                                <<<<>>,     <<"G", "r", "e", "y", " ">>>> >>

\* The cell texts pd.read_csv(mapping_path, dtype=str) reads as NaN.
na_values == {<<>>, <<"N", "A">>, <<"N", "a", "N">>, <<"n", "a", "n">>, <<"N", "o", "n", "e">>, <<"n", "u", "l", "l">>, <<"N", "U", "L", "L">>, <<"N", "/", "A">>, <<"n", "/", "a">>}

\* A NaN cell of the mapping file becomes the text "nan" under astype(str).
astype_str(cell) == IF cell \in na_values THEN <<"n", "a", "n">> ELSE cell

\* Lines 35-38.
recommended_raw == <<
    <<"t", "i", "t", "l", "e">>, <<"a", "v", "a", "i", "l", "a", "b", "i", "l", "i", "t", "y">>, <<"p", "r", "i", "c", "e">>, <<"b", "r", "a", "n", "d">>, <<"g", "t", "i", "n">>, <<"m", "p", "n">>,
    <<"c", "o", "n", "d", "i", "t", "i", "o", "n">>, <<"l", "a", "n", "g", "u", "a", "g", "e">>, <<"a", "g", "e", " ", "g", "r", "o", "u", "p">>, <<"p", "r", "o", "d", "u", "c", "t", " ", "t", "y", "p", "e">>, <<"g", "e", "n", "d", "e", "r">>,
    <<"c", "o", "l", "o", "r">>, <<"g", "o", "o", "g", "l", "e", " ", "p", "r", "o", "d", "u", "c", "t", " ", "c", "a", "t", "e", "g", "o", "r", "y">> >>

recommended_norm == {norm(x) : x \in Range(recommended_raw)}

\* norm_to_orig = {norm(c): c for c in df.columns}: a later column replaces
\* an earlier one with the same normalised name.
norm_to_orig(t) ==
    LET cols == t.columns
        keys == {norm(c) : c \in Range(cols)}
        last(k) == CHOOSE i \in DOMAIN cols :
                      /\ norm(cols[i]) = k
                      /\ \A j \in DOMAIN cols : norm(cols[j]) = k => j <= i
    IN  [k \in keys |-> cols[last(k)]]

\* ------------------------------------------------------- selection state
\* Lines 58-64: the default selection built when the session has no keep_map.
initial_keep_map(t) ==
    LET n2o     == norm_to_orig(t)
        matched == {n2o[rn] : rn \in recommended_norm \cap DOMAIN n2o}
        initial == IF matched = {} /\ <<"t", "i", "t", "l", "e">> \in Range(t.columns)
                   THEN {<<"t", "i", "t", "l", "e">>} ELSE matched
    IN  [c \in Range(t.columns) |-> c \in initial]

\* Lines 69-74.
set_select_recommended(t) ==
    LET n2o == norm_to_orig(t)
    IN  [c \in Range(t.columns) |->
            \E rn \in recommended_norm \cap DOMAIN n2o : n2o[rn] = c]

\* Lines 76-77.
set_select_all(t) == [c \in Range(t.columns) |-> TRUE]

\* Lines 79-80.
set_select_none(t) == [c \in Range(t.columns) |-> FALSE]

\* set_invert written as a reset: every entry becomes False.
set_invert_clears(km) == [c \in DOMAIN km |-> FALSE]

\* Lines 82-83: flips the entries keep_map has, whatever the table is.
set_invert(km) == [c \in DOMAIN km |-> ~km[c]]

\* Lines 85-97: the button pressed in this rerun, if any, rewrites keep_map.
press(button, km, t) ==
    CASE button = "Select recommended" -> set_select_recommended(t)
      [] button = "Select all"         -> set_select_all(t)
      [] button = "Select none"        -> set_select_none(t)
      [] button = "Invert selection"   -> set_invert(km)
      [] OTHER                         -> km

\* The sync written as keep_map.update(...): the entries of the editor are
\* written over keep_map and the entries of other columns stay.
sync_by_update(t, km, toggles) ==
    [c \in Range(t.columns) \cup DOMAIN km |->
        LET shown == IF c \in DOMAIN km THEN km[c] ELSE TRUE
        IN  IF c \in toggles THEN ~shown ELSE shown]

\* Lines 107-125: the picker lists every column of the table with
\* keep = keep_map.get(column); a column keep_map does not know gets NaN and
\* bool(NaN) is True.  The user's edits flip the checkboxes in toggles.  The
\* state is then rebuilt from the rows of the editor.
sync_from_editor(t, km, toggles) ==
    [c \in Range(t.columns) |->
        LET shown == IF c \in DOMAIN km THEN km[c] ELSE TRUE
        IN  IF c \in toggles THEN ~shown ELSE shown]

\* Line 127, in the order of the editor's rows.
keep_cols_of(t, km) == SelectSeq(t.columns, LAMBDA c : km[c])

\* ---------------------------------------------------------- filter engine
MaxUnique == 50

\* Lines 141-143: the distinct non-empty trimmed values of a column of the
\* raw table.
uniques(t, col) == {str_strip(v) : v \in Range(Column(t, col))} \ {<<>>}

\* Lines 146-151: the options of the multiselect of col; none when the
\* multiselect is not shown.
filter_options(t, col) ==
    LET u == uniques(t, col)
    IN  IF Cardinality(u) <= 1 THEN {}
        ELSE IF Cardinality(u) <= MaxUnique THEN u ELSE {}

\* The columns whose multiselect is shown.
filter_columns(t, kc) == {c \in Range(kc) : filter_options(t, c) # {}}

\* Lines 152-154: filters holds the columns with a non-empty choice.
filters_of(ch) == [c \in {d \in DOMAIN ch : ch[d] # {}} |-> ch[c]]

AllRows(t) == [i \in 1..Len(t.rows) |-> i]

RECURSIVE filter_from_kept(_, _, _, _)
\* The loop of lines 159-160 filtering kept instead of filtered in every
\* pass: only the last filter takes effect.
filter_from_kept(t, cols, f, rows) ==
    IF cols = <<>> THEN rows
    ELSE LET col  == Head(cols)
             cell == Column(t, col)
             next == IF col \in DOMAIN f
                     THEN SelectSeq(AllRows(t), LAMBDA i : cell[i] \in f[col])
                     ELSE rows
         IN  filter_from_kept(t, Tail(cols), f, next)

RECURSIVE apply_filters(_, _, _, _)
\* Lines 157-163: one pass per filtered column, each keeping the rows of the
\* previous pass whose cell is among the chosen values.  rows are the row
\* numbers of the table that are still in.
apply_filters(t, cols, f, rows) ==
    IF cols = <<>> THEN rows
    ELSE LET col  == Head(cols)
             cell == Column(t, col)
             next == IF col \in DOMAIN f
                     THEN SelectSeq(rows, LAMBDA i : cell[i] \in f[col])
                     ELSE rows
         IN  apply_filters(t, Tail(cols), f, next)

\* ---------------------------------------------------------- colour summary
colour_names == <<<<"g", "e", "n", "e", "r", "i", "c", "_", "c", "o", "l", "o", "u", "r">>, <<"p", "r", "o", "d", "u", "c", "t", "_", "c", "o", "l", "o", "u", "r">>, <<"c", "o", "l", "o", "r">>, <<"c", "o", "l", "o", "u", "r">>>>

\* Lines 176 and 206.
colour_candidates_of(kc) == SelectSeq(colour_names, LAMBDA c : c \in Range(kc))

\* The cells of column col in the filtered rows.
filtered_column(t, rows, col) ==
    LET cell == Column(t, col) IN [k \in DOMAIN rows |-> cell[rows[k]]]

\* Series.str.strip() on every cell.
strip_each(s) == [k \in DOMAIN s |-> str_strip(s[k])]

\* Series.str.strip().str.lower() on every cell.
strip_lower_each(s) == [k \in DOMAIN s |-> strip_lower(s[k])]

NotEmptyStr(v) == v # <<>>

\* Lines 182-190: counts of the trimmed non-empty cells with their share of
\* the non-empty cells.
colour_summary(t, rows, col) ==
    LET s         == strip_each(filtered_column(t, rows, col))
        ne        == SelectSeq(s, NotEmptyStr)
        non_empty == Len(ne)
        counts    == value_counts(ne)
    IN  [k \in DOMAIN counts |->
            [Colour  |-> counts[k].value,
             Count   |-> counts[k].count,
             Percent |-> pct(counts[k].count, non_empty)]]

\* ---------------------------------------------------------- colour mapping
\* The value a left join leaves where no mapping entry matched.
NaN == <<"NaN">>
\* The value of an editor cell the user has cleared.
NoneCell == <<"None">>

\* Line 221.
has_need_cols(m) ==
    {<<"p", "r", "o", "d", "u", "c", "t", "_", "c", "o", "l", "o", "u", "r">>, <<"g", "e", "n", "e", "r", "i", "c", "_", "c", "o", "l", "o", "u", "r">>}
        \subseteq {str_lower(c) : c \in Range(MappingHeader(m))}

RECURSIVE drop_duplicates(_, _)
\* DataFrame.drop_duplicates(subset=["product_colour"]), keep="first":
\* the entries of s whose key is not that of an earlier entry, after acc.
drop_duplicates(s, acc) ==
    IF s = <<>> THEN acc
    ELSE drop_duplicates(Tail(s),
            IF \E k \in DOMAIN acc : acc[k].product_colour = Head(s).product_colour
            THEN acc ELSE Append(acc, Head(s)))

\* Lines 225-229: the two columns, matched on their lower-cased header, with
\* both values normalised, one entry per key.
load_colour_map(m) ==
    LET raw  == MappingHeader(m)
        head == [k \in DOMAIN raw |-> str_lower(raw[k])]
        pc_i == IndexOf(head, <<"p", "r", "o", "d", "u", "c", "t", "_", "c", "o", "l", "o", "u", "r">>)
        gc_i == IndexOf(head, <<"g", "e", "n", "e", "r", "i", "c", "_", "c", "o", "l", "o", "u", "r">>)
        rows == MappingRows(m)
        norm_rows == [k \in DOMAIN rows |->
                        [product_colour |-> strip_lower(astype_str(rows[k][pc_i])),
                         generic_colour |-> strip_lower(astype_str(rows[k][gc_i]))]]
    IN  drop_duplicates(norm_rows, <<>>)

\* Line 233: data["_src_colour_norm"].
src_colour_norm(t, rows, col) ==
    strip_lower_each(filtered_column(t, rows, col))

\* The rows a left join produces for one source value: one per matching
\* entry, or a single row with NaN when nothing matches.
merge_one(key, cmap) ==
    LET hits == SelectSeq(cmap, LAMBDA e : e.product_colour = key)
    IN  IF hits = <<>>
        THEN << [src |-> key, generic_colour |-> NaN] >>
        ELSE [k \in DOMAIN hits |->
                 [src |-> key, generic_colour |-> hits[k].generic_colour]]

RECURSIVE merge_left(_, _)
\* Lines 236 and 298: data.merge(cmap, how="left",
\* left_on="_src_colour_norm", right_on="product_colour").
merge_left(keys, cmap) ==
    IF keys = <<>> THEN <<>>
    ELSE merge_one(Head(keys), cmap) \o merge_left(Tail(keys), cmap)

\* Lines 237 and 299: merged["generic_colour"].notna().sum().
notna_sum(m) == Cardinality({k \in DOMAIN m : m[k].generic_colour # NaN})

\* Lines 242-247 without .replace("", pd.NA).dropna().
unmapped_with_empty(m) ==
    LET un  == SelectSeq(m, LAMBDA r : r.generic_colour = NaN)
    IN  value_counts([k \in DOMAIN un |-> un[k].src])

\* Lines 242-247: the source values of the rows without a match, the empty
\* str dropped, counted per value.
unmapped_table_of(m) ==
    LET un  == SelectSeq(m, LAMBDA r : r.generic_colour = NaN)
        src == [k \in DOMAIN un |-> un[k].src]
    IN  value_counts(SelectSeq(src, NotEmptyStr))

\* Line 256.
allowed_generic_of(cmap) == {cmap[k].generic_colour : k \in DOMAIN cmap}

\* astype(str) on a cell of the mapping editor.
cell_str(cell) == IF cell = NoneCell THEN <<"N", "o", "n", "e">> ELSE cell

\* Lines 276-284: one entry per annotated record of the editor.
new_rows_of(ut, edit) ==
    LET picked == SelectSeq(ut,
                    LAMBDA r : str_strip(cell_str(edit[r.value])) # <<>>)
        rows   == [k \in DOMAIN picked |->
                     [product_colour |-> strip_lower(picked[k].value),
                      generic_colour |->
                          strip_lower(cell_str(edit[picked[k].value]))]]
    IN  drop_duplicates(rows, <<>>)

\* pd.concat([colour_map, new_rows]): the base entries ahead of the edits.
merge_back_base_first(nr, cmap) == drop_duplicates(cmap \o nr, <<>>)

\* The updated mapping built from the edits alone.
merge_back_edits_only(nr, cmap) == drop_duplicates(nr, <<>>)

\* Lines 286-288: the edits ahead of the base entries, first entry per key.
merge_back(nr, cmap) == drop_duplicates(nr \o cmap, <<>>)

\* The editor cells before any edit (line 259).
blank_edit(ut) == [v \in {ut[k].value : k \in DOMAIN ut} |-> <<>>]

\* ------------------------------------------------------------- the state
VARIABLES
    tsv_file,            \* the file held by st.file_uploader
    mapping_file,        \* which colour_mapping.csv is on disk
    has_keep_map,        \* "keep_map" in st.session_state
    keep_map,            \* st.session_state.keep_map
    clicked,             \* the button pressed in the last rerun, or ""
    chosen,              \* the value of the multiselect of each filter column
    summary_colour_col,  \* the value of the selectbox of line 180
    colour_col,          \* the value of the selectbox of line 210
    map_edit,            \* "Map to generic colour" cell per unmapped colour
    pc,                  \* where the last rerun ended
    df, keep_cols, filters, filtered, colour_candidates, vc, colour_map,
    mapped_rows, len_merged, pct_mapped, unmapped_table, new_rows,
    updated_map, mapped_rows_after, len_applied, pct_mapped_after

vars == <<tsv_file, mapping_file, has_keep_map, keep_map, clicked, chosen,
          summary_colour_col, colour_col, map_edit, pc, df, keep_cols,
          filters, filtered, colour_candidates, vc, colour_map, mapped_rows,
          len_merged, pct_mapped, unmapped_table, new_rows, updated_map,
          mapped_rows_after, len_applied, pct_mapped_after>>

\* How far a rerun that ended at p got:
\*   0 stopped before the table was loaded (lines 14, 24)
\*   1 state synced, no column kept (line 130)
\*   2 filtered, no colour column (line 209)
\*   3 summary shown, mapping file unusable (lines 218, 223)
\*   4 mapping loaded, KeyError on merged["generic_colour"] (line 237)
\*   5 coverage computed, KeyError on drop(columns=...) (line 304)
\*   6 feed download offered (line 308)
Stage(p) ==
    CASE p \in {"no_file", "load_error"}                        -> 0
      [] p = "no_columns"                                       -> 1
      [] p = "no_colour"                                        -> 2
      [] p \in {"mapping_load_error", "mapping_schema_error"}   -> 3
      [] p = "key_error_237"                                    -> 4
      [] p = "key_error_304"                                    -> 5
      [] p = "done"                                             -> 6
      [] OTHER                                                  -> 0

\* Where a rerun ends, from what it has computed by then.
halt_at(file, kc, cands, m) ==
    IF file = NoFile THEN "no_file"
    ELSE IF file.id \notin FileIds THEN "load_error"
    ELSE IF kc = <<>> THEN "no_columns"
    ELSE IF cands = <<>> THEN "no_colour"
    ELSE IF m = "missing" THEN "mapping_load_error"
    ELSE IF ~has_need_cols(m) THEN "mapping_schema_error"
    ELSE IF <<"g", "e", "n", "e", "r", "i", "c", "_", "c", "o", "l", "o", "u", "r">> \in Range(kc) THEN "key_error_237"
    ELSE IF <<"p", "r", "o", "d", "u", "c", "t", "_", "c", "o", "l", "o", "u", "r">> \in Range(kc) THEN "key_error_304"
    ELSE "done"

\* A selectbox keeps its value while its options are the same, and shows
\* its first option otherwise (index=0).
selectbox(cands, old_cands, w) ==
    IF cands = <<>> THEN <<>>
    ELSE IF cands = old_cands /\ w \in Range(cands) THEN w ELSE cands[1]

\* One complete execution of the script with the uploader holding file, the
\* given button pressed, the picker checkboxes in toggles flipped and the
\* widgets holding w_chosen, w_summary, w_colour and w_edit.  Each
\* "\E x \in {e}" names the value the script assigns to x.
Rerun(file, button, toggles, w_chosen, w_summary, w_colour, w_edit) ==
    \E loaded \in {file.id \in FileIds} :
    \E t \in {IF loaded THEN read_tsv(file) ELSE EmptyDf} :
    \E km0 \in {IF has_keep_map THEN keep_map ELSE initial_keep_map(t)} :
    \E km \in {sync_from_editor(t, press(button, km0, t), toggles)} :
    \E kc \in {keep_cols_of(t, km)} :
    \* a multiselect keeps its value while its options are the same
    \E ch \in {[c \in filter_columns(t, kc) |->
                  IF /\ c \in DOMAIN w_chosen
                     /\ filter_options(df, c) = filter_options(t, c)
                  THEN w_chosen[c] ELSE {}]} :
    \E f \in {filters_of(ch)} :
    \E rows \in {IF DOMAIN f # {}
                 THEN apply_filters(t, kc, f, AllRows(t)) ELSE AllRows(t)} :
    \E cands \in {colour_candidates_of(kc)} :
    \E p \in {halt_at(file, kc, cands, mapping_file)} :
    \E st \in {Stage(p)} :
    \E scol \in {selectbox(cands, colour_candidates, w_summary)} :
    \E mcol \in {selectbox(cands, colour_candidates, w_colour)} :
    \E cmap \in {IF st >= 4 THEN load_colour_map(mapping_file) ELSE <<>>} :
    \E keys \in {IF st >= 5 THEN src_colour_norm(t, rows, mcol) ELSE <<>>} :
    \E merged \in {merge_left(keys, cmap)} :
    \E ut \in {unmapped_table_of(merged)} :
    \* the editor keeps its cells while its table is the same
    \E edit \in {IF ut = unmapped_table THEN w_edit ELSE blank_edit(ut)} :
    \E nr \in {IF ut = <<>> THEN <<>> ELSE new_rows_of(ut, edit)} :
    \E um \in {IF ut = <<>> THEN cmap ELSE merge_back(nr, cmap)} :
    \E applied \in {merge_left(keys, um)} :
        /\ tsv_file' = file
        /\ mapping_file' = mapping_file
        /\ clicked' = button
        /\ pc' = p
        /\ df' = t
        /\ has_keep_map' = (has_keep_map \/ loaded)
        /\ keep_map' = IF loaded THEN km ELSE keep_map
        /\ keep_cols' = IF st >= 1 THEN kc ELSE <<>>
        /\ chosen' = IF st >= 2 THEN ch ELSE <<>>
        /\ filters' = IF st >= 2 THEN f ELSE <<>>
        /\ filtered' = IF st >= 2 THEN rows ELSE <<>>
        /\ colour_candidates' = IF st >= 2 THEN cands ELSE <<>>
        /\ summary_colour_col' = IF st >= 3 THEN scol ELSE <<>>
        /\ vc' = IF st >= 3 THEN colour_summary(t, rows, scol) ELSE <<>>
        /\ colour_col' = IF st >= 3 THEN mcol ELSE <<>>
        /\ colour_map' = cmap
        /\ mapped_rows' = IF st >= 5 THEN notna_sum(merged) ELSE 0
        /\ len_merged' = IF st >= 5 THEN Len(merged) ELSE 0
        /\ pct_mapped' = IF st >= 5 THEN pct(notna_sum(merged), Len(merged))
                         ELSE 0
        /\ unmapped_table' = IF st >= 5 THEN ut ELSE <<>>
        /\ map_edit' = IF st >= 5 THEN edit ELSE <<>>
        /\ new_rows' = IF st >= 5 THEN nr ELSE <<>>
        /\ updated_map' = IF st >= 5 THEN um ELSE <<>>
        /\ mapped_rows_after' = IF st >= 5 THEN notna_sum(applied) ELSE 0
        /\ len_applied' = IF st >= 5 THEN Len(applied) ELSE 0
        /\ pct_mapped_after' =
               IF st >= 5 THEN pct(notna_sum(applied), Len(applied)) ELSE 0

\* The session before any upload: the first run stops at line 14.
Init ==
    /\ tsv_file = NoFile
    /\ mapping_file \in MappingFiles
    /\ has_keep_map = FALSE
    /\ keep_map = <<>>
    /\ clicked = ""
    /\ chosen = <<>>
    /\ summary_colour_col = <<>>
    /\ colour_col = <<>>
    /\ map_edit = <<>>
    /\ pc = "no_file"
    /\ df = EmptyDf
    /\ keep_cols = <<>>
    /\ filters = <<>>
    /\ filtered = <<>>
    /\ colour_candidates = <<>>
    /\ vc = <<>>
    /\ colour_map = <<>>
    /\ mapped_rows = 0
    /\ len_merged = 0
    /\ pct_mapped = 0
    /\ unmapped_table = <<>>
    /\ new_rows = <<>>
    /\ updated_map = <<>>
    /\ mapped_rows_after = 0
    /\ len_applied = 0
    /\ pct_mapped_after = 0

Same(button, toggles) ==
    Rerun(tsv_file, button, toggles, chosen, summary_colour_col, colour_col,
          map_edit)

\* The user puts another file into the uploader, or removes the file.
Upload ==
    \E f \in Uploads :
        /\ f # tsv_file
        /\ Rerun(f, "", {}, chosen, summary_colour_col, colour_col,
                 map_edit)

ClickSelectRecommended == Stage(pc) >= 1 /\ Same("Select recommended", {})

ClickSelectAll == Stage(pc) >= 1 /\ Same("Select all", {})

ClickSelectNone == Stage(pc) >= 1 /\ Same("Select none", {})

ClickInvert == Stage(pc) >= 1 /\ Same("Invert selection", {})

\* The user flips checkboxes of the picker.
EditPicker ==
    /\ Stage(pc) >= 1
    /\ \E T \in SUBSET Range(df.columns) :
          /\ Cardinality(T) \in 1..MaxToggles
          /\ Same("", T)

\* The user changes the selection of one filter multiselect.
ChooseFilter ==
    /\ Stage(pc) >= 2
    /\ \E c \in DOMAIN chosen :
          \E vals \in SUBSET filter_options(df, c) :
             /\ Cardinality(vals) <= MaxChosen
             /\ vals # chosen[c]
             /\ Rerun(tsv_file, "", {}, [chosen EXCEPT ![c] = vals],
                      summary_colour_col, colour_col, map_edit)

\* The user picks another column in the selectbox of the colour summary.
SelectSummaryColour ==
    /\ Stage(pc) >= 3
    /\ \E c \in Range(colour_candidates) \ {summary_colour_col} :
          Rerun(tsv_file, "", {}, chosen, c, colour_col, map_edit)

\* The user picks another source column in the selectbox of the mapping.
SelectMappingColour ==
    /\ Stage(pc) >= 3
    /\ \E c \in Range(colour_candidates) \ {colour_col} :
          Rerun(tsv_file, "", {}, chosen, summary_colour_col, c, map_edit)

\* The user sets or clears one "Map to generic colour" cell.
EditMapping ==
    /\ Stage(pc) >= 5
    /\ \E v \in DOMAIN map_edit :
          \E g \in allowed_generic_of(colour_map) \cup {NoneCell} :
             /\ g # map_edit[v]
             /\ Rerun(tsv_file, "", {}, chosen, summary_colour_col,
                      colour_col, [map_edit EXCEPT ![v] = g])

Next ==
    \/ Upload
    \/ ClickSelectRecommended
    \/ ClickSelectAll
    \/ ClickSelectNone
    \/ ClickInvert
    \/ EditPicker
    \/ ChooseFilter
    \/ SelectSummaryColour
    \/ SelectMappingColour
    \/ EditMapping

Spec == Init /\ [][Next]_vars

\* ------------------------------------------------- merge-back on its own
\* Largest number of entries of each mapping given to merge_back.
MaxEntries == 2

MergeEntries ==
    [product_colour : {<<"r", "e", "d">>, <<"b", "l", "u", "e">>, <<"g", "r", "e", "e", "n">>},
     generic_colour : {<<"s", "c", "a", "r", "l", "e", "t">>, <<"n", "a", "v", "y">>}]

UniqueKeys(s) ==
    \A i, j \in DOMAIN s : s[i].product_colour = s[j].product_colour => i = j

\* The mappings with one entry per key, as both drop_duplicates calls
\* (lines 229 and 283) leave them.
MergeInputs ==
    UNION {{s \in [1..n -> MergeEntries] : UniqueKeys(s)} : n \in 0..MaxEntries}

InitMerge ==
    /\ new_rows \in MergeInputs
    /\ colour_map \in MergeInputs
    /\ updated_map = <<>>
    /\ pc = "merge_input"
    /\ tsv_file = NoFile
    /\ mapping_file = "good"
    /\ has_keep_map = FALSE
    /\ keep_map = <<>>
    /\ clicked = ""
    /\ chosen = <<>>
    /\ summary_colour_col = <<>>
    /\ colour_col = <<>>
    /\ map_edit = <<>>
    /\ df = EmptyDf
    /\ keep_cols = <<>>
    /\ filters = <<>>
    /\ filtered = <<>>
    /\ colour_candidates = <<>>
    /\ vc = <<>>
    /\ mapped_rows = 0
    /\ len_merged = 0
    /\ pct_mapped = 0
    /\ unmapped_table = <<>>
    /\ mapped_rows_after = 0
    /\ len_applied = 0
    /\ pct_mapped_after = 0

\* Lines 286-288 applied to the drawn edits and base mapping.
MergeBack ==
    /\ pc = "merge_input"
    /\ pc' = "merged"
    /\ updated_map' = merge_back(new_rows, colour_map)
    /\ UNCHANGED <<tsv_file, mapping_file, has_keep_map, keep_map, clicked,
                   chosen, summary_colour_col, colour_col, map_edit, df,
                   keep_cols, filters, filtered, colour_candidates, vc,
                   colour_map, mapped_rows, len_merged, pct_mapped,
                   unmapped_table, new_rows, mapped_rows_after, len_applied,
                   pct_mapped_after>>

NextMerge == MergeBack

SpecMerge == InitMerge /\ [][NextMerge]_vars

\* ------------------------------------------------------------ properties
Cell(t, i, c) == t.rows[i][IndexOf(t.columns, c)]

\* C1: after every rerun that loaded a table, keep_map has exactly one
\* boolean entry per column of that table and no other key.
C1_KeySetIsColumnSet ==
    Stage(pc) >= 1 =>
        /\ DOMAIN keep_map = Range(df.columns)
        /\ \A c \in DOMAIN keep_map : keep_map[c] \in BOOLEAN

\* A table with other columns was loaded over an existing state and the
\* selection was inverted.
C1_Witness ==
    /\ Stage(pc) >= 1
    /\ clicked = "Invert selection"
    /\ df.columns = FileColumns("feed_c")
    /\ \E c \in DOMAIN keep_map : keep_map[c]

\* C2: a row is in the filtered table iff its cell is among the chosen
\* values of every column with a non-empty choice; the rows keep their
\* order; with no choice at all the filtered table is the kept table.
C2_FilterIsIntersection ==
    Stage(pc) >= 2 =>
        /\ \A i \in DOMAIN df.rows :
              i \in Range(filtered) <=>
                  \A c \in DOMAIN chosen :
                      chosen[c] # {} => Cell(df, i, c) \in chosen[c]
        /\ \A j, k \in DOMAIN filtered : j < k => filtered[j] < filtered[k]
        /\ (\A c \in DOMAIN chosen : chosen[c] = {}) => filtered = AllRows(df)

\* Two columns are filtered, a row satisfying only one of the two
\* constraints is out and a row satisfying both is in.
C2_Witness ==
    /\ Stage(pc) >= 2
    /\ Cardinality({c \in DOMAIN chosen : chosen[c] # {}}) = 2
    /\ filtered # <<>>
    /\ \E i \in DOMAIN df.rows, c \in DOMAIN chosen :
          /\ chosen[c] # {}
          /\ Cell(df, i, c) \in chosen[c]
          /\ i \notin Range(filtered)

EntryOf(m, key) == m[CHOOSE k \in DOMAIN m : m[k].product_colour = key]

HasKey(m, key) == \E k \in DOMAIN m : m[k].product_colour = key

\* C3: the updated mapping has one entry per key; a key with an edit holds
\* the edit's generic colour, also when the base mapping has the key; a base
\* entry whose key has no edit is carried over unchanged.
C3_EditWins ==
    pc = "merged" =>
        /\ UniqueKeys(updated_map)
        /\ \A k \in DOMAIN new_rows :
              /\ HasKey(updated_map, new_rows[k].product_colour)
              /\ EntryOf(updated_map, new_rows[k].product_colour) = new_rows[k]
        /\ \A k \in DOMAIN colour_map :
              ~HasKey(new_rows, colour_map[k].product_colour) =>
                  /\ HasKey(updated_map, colour_map[k].product_colour)
                  /\ EntryOf(updated_map, colour_map[k].product_colour)
                         = colour_map[k]

\* The base mapping and the edits disagree on a key.
C3_Witness ==
    /\ pc = "merged"
    /\ \E i \in DOMAIN new_rows, j \in DOMAIN colour_map :
          /\ new_rows[i].product_colour = colour_map[j].product_colour
          /\ new_rows[i].generic_colour # colour_map[j].generic_colour

\* C4: with at least one resolution edit, the re-join matches at least as
\* many rows as the first join, over the same number of rows, so the
\* coverage does not go down.
C4_CoverageMonotone ==
    (Stage(pc) >= 5 /\ new_rows # <<>>) =>
        /\ mapped_rows_after >= mapped_rows
        /\ len_applied = len_merged
        /\ pct_mapped_after >= pct_mapped

\* An edit has raised the coverage of a table that was partly mapped.
C4_Witness ==
    /\ Stage(pc) >= 5
    /\ new_rows # <<>>
    /\ mapped_rows > 0
    /\ mapped_rows_after > mapped_rows

\* C5: a rerun that finds no colour column among the kept columns still
\* reaches the download of the filtered feed.
C5_NoColourStillExports ==
    (Stage(pc) >= 2 /\ colour_candidates = <<>>) => pc = "done"

IsRecommended(c) == norm(c) \in recommended_norm

\* The flag the claim gives column c of table t.
RecommendedFlag(t, c, with_fallback) ==
    IF with_fallback /\ ~\E d \in Range(t.columns) : IsRecommended(d)
    THEN c = <<"t", "i", "t", "l", "e">>
    ELSE IsRecommended(c)

\* C6: after the rerun that initialises keep_map, and after a rerun with
\* "Select recommended" pressed, a column is kept iff its normalised name is
\* the normalised form of a recommended label; initialise keeps the column
\* named "title" instead when no column matches.
C6_RecommendedFlags ==
    [][ /\ (~has_keep_map /\ has_keep_map') =>
              \A c \in Range(df'.columns) :
                  keep_map'[c] <=> RecommendedFlag(df', c, TRUE)
        /\ clicked' = "Select recommended" =>
              \A c \in Range(df'.columns) :
                  keep_map'[c] <=> RecommendedFlag(df', c, FALSE)
      ]_vars

\* The normalised colour values of the filtered rows of column col.
NormColours(col) ==
    strip_lower_each(filtered_column(df, filtered, col))

IsDescending(t) ==
    \A j, k \in DOMAIN t : j < k => t[j].count >= t[k].count

\* C7: the unmapped table has exactly one record per distinct non-empty
\* normalised source value without a base mapping entry, with the number of
\* filtered rows carrying it, ordered by count descending.
C7_UnmappedTable ==
    Stage(pc) >= 5 =>
        LET src == NormColours(colour_col)
            expected == {v \in Range(src) :
                            v # <<>> /\ ~HasKey(colour_map, v)}
        IN  /\ {unmapped_table[k].value : k \in DOMAIN unmapped_table}
                   = expected
            /\ Len(unmapped_table) = Cardinality(expected)
            /\ \A k \in DOMAIN unmapped_table :
                  unmapped_table[k].count
                      = CountOf(src, unmapped_table[k].value)
            /\ IsDescending(unmapped_table)

\* Two unmapped colours, the more frequent one met later in the table, next
\* to an empty cell that matches no mapping entry.
C7_Witness ==
    /\ Stage(pc) >= 5
    /\ Len(unmapped_table) = 2
    /\ unmapped_table[1].count > unmapped_table[2].count
    /\ <<>> \in Range(NormColours(colour_col))
    /\ ~HasKey(colour_map, <<>>)
    /\ \E j, k \in DOMAIN filtered :
          /\ j < k
          /\ NormColours(colour_col)[j] = unmapped_table[2].value
          /\ NormColours(colour_col)[k] = unmapped_table[1].value

\* C8: the colour summary has exactly one row per distinct non-empty
\* normalised (trimmed, lower-cased) value of the chosen colour column, with
\* the number of filtered rows carrying that normalised value.
C8_SummaryGroupsNormalised ==
    Stage(pc) >= 3 =>
        LET src == NormColours(summary_colour_col)
            expected == Range(src) \ {<<>>}
        IN  /\ {vc[k].Colour : k \in DOMAIN vc} = expected
            /\ Len(vc) = Cardinality(expected)
            /\ \A k \in DOMAIN vc : vc[k].Count = CountOf(src, vc[k].Colour)

\* C9: a rerun with "Invert selection" pressed leaves a state whose
\* inversion is the state before it, and pressed right after "Select all"
\* it leaves the state of "Select none".
C9_InvertLaws ==
    [][ clicked' = "Invert selection" =>
           /\ set_invert(keep_map') = keep_map
           /\ clicked = "Select all" => keep_map' = set_select_none(df')
      ]_vars

\* The selection was inverted right after "Select all".
C9_Witness ==
    /\ clicked = "Invert selection"
    /\ pc = "no_columns"
    /\ Len(df.columns) >= 2

\* C10: loading another table into a session that has a keep_map replaces
\* it by the default selection of the new table.
C10_ReplacedOnLoad ==
    [][ (has_keep_map /\ tsv_file' # tsv_file /\ Stage(pc') >= 1) =>
           keep_map' = initial_keep_map(df')
      ]_vars

====
